---- MODULE Spec2Model ----
(***************************************************************************)
(* Model of src/src/socketio/redis_manager.py: the Redis pub/sub client    *)
(* managers RedisManager (direct URL) and RedisSentinelManager (master     *)
(* found through sentinels).                                               *)
(*                                                                         *)
(* Manager "B" is the manager under study: it owns self.redis and          *)
(* self.pubsub, runs the listener generator (_listen over                  *)
(* _redis_listen_with_retries) and calls _publish from a second context.   *)
(* Manager "A" is another process on the same channel, constructed with    *)
(* write_only=True: it only calls _publish.                                *)
(*                                                                         *)
(* The redis client library and the broker are the environment.  A step of *)
(* the model is one broker operation of the code together with the         *)
(* straight-line code around it (contexts switch at I/O).                  *)
(***************************************************************************)
EXTENDS Integers, Sequences, FiniteSets, TLC

VARIABLES
    variant,      \* "direct" (RedisManager) or "sentinel" (RedisSentinelManager)
    brokerUp,     \* the master node (at location master) is reachable
    sentinelUp,   \* the sentinel (discovery + '+switch-master' channel) is reachable
    master,       \* location of the node that is master now
    failoverMsgs, \* notifications waiting on self.failover
    env,          \* how many faults / foreign envelopes the environment has produced
    redis,        \* redis[m]: location self.redis of manager m points to
    h,            \* the pubsub handles of B that are still referenced
    cur,          \* the slot of h that is B's self.pubsub
    lh,           \* the slot of h the running self.pubsub.listen() generator reads
    lpc,          \* position of B's listener
    retry_sleep,  \* local retry_sleep of _redis_listen_with_retries
    connect,      \* local connect of _redis_listen_with_retries
    yielded,      \* the items _listen has yielded, in order
    pub,          \* pub[m]: the _publish call of manager m (locals and return value)
    origin,       \* history: the envelope each yielded item was taken from
    streak,       \* history: entries of the except handler since the last successful reconnect
    reconnFails,  \* history: failed reconnect attempts since the last successful reconnect
    cause,        \* history: what raised the error the handler is handling
    recovered,    \* history: a reconnect of the listener has succeeded
    disturbed,    \* history: the broker or the sentinel was unreachable, or the master moved
    sentA,        \* history: payloads A published successfully after B's listener subscribed
    gaveUp        \* history: payloads whose _publish call gave up

vars == << variant, brokerUp, sentinelUp, master, failoverMsgs, env, redis, h, cur, lh,
           lpc, retry_sleep, connect, yielded, pub,
           origin, streak, reconnFails, cause, recovered, disturbed, sentA, gaveUp >>

envVars == << brokerUp, sentinelUp, master, failoverMsgs, env >>
listenerVars == << lpc, retry_sleep, connect, yielded, origin, streak, reconnFails, cause,
                  recovered >>
handleVars == << redis, h, cur, lh >>
pubVars == << pub, sentA, gaveUp >>

----------------------------------------------------------------------------
(* Bounds of the model *)

MaxPublish == 1      \* _publish calls made by each manager
MaxFaults == 2       \* times the environment takes the broker or sentinel down or moves the master
MaxForeign == 1      \* envelopes the broker delivers that no modelled _publish produced
MaxInbox == 2        \* envelopes waiting unread on one handle
StreakCap == 7       \* the history counters saturate here (the delay is 60 from the 7th on)

----------------------------------------------------------------------------
(* Program constants *)

BaseDelay == 1
DelayCap == 60
Channel == "socketio"

Managers == {"A", "B"}
Locs == {1, 2}
Slots == {0, 1}

Other(s) == 1 - s
OtherLoc(l) == 3 - l

Min(a, b) == IF a < b THEN a ELSE b

----------------------------------------------------------------------------
(* The redis client library and the broker, as the code uses them *)

\* The exception classes the broker operations raise: ConnectionError
\* (publish, subscribe, listen, get_message on an unreachable node),
\* MasterNotFoundError (discover_master) and RuntimeError (get_message on a
\* pubsub that never subscribed, in client versions that raise there).
IsRedisError(kind) == kind \in {"ConnectionError", "MasterNotFoundError"}

\* Variant of Caught: a clause that covers the errors of the data connection
\* but not the error of master discovery.
CaughtDataErrorsOnly(kind) == kind = "ConnectionError"

\* except redis.exceptions.RedisError
Caught(kind) == IsRedisError(kind)

\* A node is reachable when it is the master and the master is up.
Reachable(loc) == brokerUp /\ loc = master

Payload(m, n) == [src |-> m, seq |-> n]
NoPayload == Payload("none", 0)

\* The envelope the broker sends to the subscribers of Channel for PUBLISH data.
Message(data) == [type |-> "message", channel |-> Channel, hasData |-> TRUE, data |-> data]

\* The acknowledgement of SUBSCRIBE.
Ack == [type |-> "subscribe", channel |-> Channel, hasData |-> TRUE, data |-> NoPayload]

\* Envelopes that no modelled _publish produced.
ForeignEnvelopes ==
    { [type |-> "message", channel |-> "other", hasData |-> TRUE, data |-> Payload("X", 1)],
      [type |-> "message", channel |-> Channel, hasData |-> FALSE, data |-> NoPayload],
      [type |-> "pmessage", channel |-> Channel, hasData |-> TRUE, data |-> Payload("X", 2)],
      [type |-> "unsubscribe", channel |-> Channel, hasData |-> TRUE, data |-> NoPayload],
      [type |-> "message", channel |-> Channel, hasData |-> TRUE, data |-> Payload("X", 3)] }

\* self.redis.pubsub(ignore_subscribe_messages=True): a handle that has not subscribed.
FreshHandle(loc) == [sub |-> FALSE, loc |-> loc, inbox |-> <<>>]

Blank == FreshHandle(1)

\* ignore_subscribe_messages=True: the library drops these envelopes itself.
Ignored(e) == e.type \in {"subscribe", "unsubscribe"}

\* pubsub.subscribe(self.channel) on the handle in slot s.
Subscribed(hh, s) == [hh EXCEPT ![s] = [@ EXCEPT !.sub = TRUE, !.inbox = Append(@, Ack)]]

\* The broker hands envelope e to every handle subscribed at node loc.
Broadcast(hh, loc, e) ==
    [s \in Slots |-> IF hh[s].sub /\ hh[s].loc = loc
                     THEN [hh[s] EXCEPT !.inbox = Append(@, e)]
                     ELSE hh[s]]

HasRoom(hh, loc) == \A s \in Slots : (hh[s].sub /\ hh[s].loc = loc) => Len(hh[s].inbox) < MaxInbox

\* The slot that receives B's next pubsub handle: the handle a running listen()
\* generator reads stays referenced, every other old handle is dropped.
NewSlot == IF lpc = "recv" /\ lh = cur THEN Other(cur) ELSE cur

\* Only slot c is referenced: the other one is dropped.
Collect(hh, c) == [s \in Slots |-> IF s = c THEN hh[s] ELSE Blank]

\* Variant of NewPubsub: the assignment of self.pubsub is missing.
NewPubsubMissing(hh, s, loc) == hh

\* _redis_connect, line 73 / 156: self.pubsub = self.redis.pubsub(...), in slot s.
NewPubsub(hh, s, loc) == [hh EXCEPT ![s] = FreshHandle(loc)]

\* Variant of ConnectTarget: the URL of the earlier call is used again.
ConnectTargetCached(v, d, old) == old

\* The node _redis_connect connects to: the sentinel variant builds the URL
\* from the answer d of discover_master (lines 145-146), the direct variant
\* uses self.redis_url (line 71), which never changes.
ConnectTarget(v, d, old) == IF v = "sentinel" THEN d.loc ELSE old

\* sentinel.discover_master(master_name): the answers it can give now.
DiscoverResults ==
    IF variant = "direct" THEN { [ok |-> TRUE, loc |-> 1] }
    ELSE IF ~sentinelUp THEN { [ok |-> FALSE, loc |-> master] }
    ELSE IF brokerUp THEN { [ok |-> TRUE, loc |-> master] }
    ELSE { [ok |-> TRUE, loc |-> master], [ok |-> FALSE, loc |-> master] }

----------------------------------------------------------------------------
(* Pure parts of the code *)

\* Variant of NextDelay: the cap is missing.
NextDelayNoCap(d) == 2 * d

\* Variant of NextDelay: the delay grows by one instead of doubling.
NextDelayLinear(d) == IF d + 1 > DelayCap THEN DelayCap ELSE d + 1

\* retry_sleep *= 2; if retry_sleep > 60: retry_sleep = 60
NextDelay(d) == IF 2 * d > DelayCap THEN DelayCap ELSE 2 * d

\* Variant of NeedsConnect: the direct variant reconnects on every attempt too.
NeedsConnectAlways(v, r) == TRUE

\* RedisManager._publish: "if not retry: self._redis_connect()";
\* RedisSentinelManager._publish: self._redis_connect() on every attempt.
NeedsConnect(v, r) == v = "sentinel" \/ ~r

\* Variant of AfterPublish: the return is missing, the loop publishes again.
AfterPublishNoReturn(ok, r) == IF ok \/ r THEN "try" ELSE "idle"

\* Where _publish goes after an attempt: "return self.redis.publish(...)",
\* or the except clause: retry once, then break.
AfterPublish(ok, r) == IF ok THEN "idle" ELSE IF r THEN "try" ELSE "idle"

\* Variant of Accepts: the channel is not compared.
AcceptsAnyChannel(e) == e.type = "message" /\ e.hasData

\* _listen: message['channel'] == channel and message['type'] == 'message'
\*          and 'data' in message
Accepts(e) == e.channel = Channel /\ e.type = "message" /\ e.hasData

\* Variant of AfterError: only a failed connect attempt is followed by the sleep.
AfterErrorSleepOnConnectOnly(why) == IF why = "connect" THEN "sleep" ELSE "loop"

\* The except clause of the listener, lines 102-105: whatever raised, it logs,
\* sets connect and sleeps before the loop starts over.
AfterError(why) == "sleep"

Bump(n) == Min(n + 1, StreakCap)

----------------------------------------------------------------------------
(* The state after construction *)

NewCall == [pc |-> "idle", retry |-> TRUE, calls |-> 0, attempts |-> 0,
            connects |-> 0, publishes |-> 0, oks |-> 0, result |-> "none"]

Init ==
    /\ variant \in {"direct", "sentinel"}
    /\ brokerUp = TRUE
    /\ sentinelUp = TRUE
    /\ master = 1
    /\ failoverMsgs = 0
    /\ env = [faults |-> 0, foreign |-> 0]
    /\ redis = [m \in Managers |-> 1]
    /\ h = [s \in Slots |-> Blank]
    /\ cur = 0
    /\ lh = 0
    /\ lpc = "init"
    /\ retry_sleep = BaseDelay
    /\ connect = FALSE
    /\ yielded = <<>>
    /\ pub = [m \in Managers |-> NewCall]
    /\ origin = <<>>
    /\ streak = 0
    /\ reconnFails = 0
    /\ cause = "none"
    /\ recovered = FALSE
    /\ disturbed = FALSE
    /\ sentA = {}
    /\ gaveUp = {}

----------------------------------------------------------------------------
(* The environment: broker, sentinel, other processes *)

BrokerDown ==
    /\ brokerUp
    /\ env.faults < MaxFaults
    /\ brokerUp' = FALSE
    /\ env' = [env EXCEPT !.faults = @ + 1]
    /\ disturbed' = TRUE
    /\ UNCHANGED << variant, sentinelUp, master, failoverMsgs, handleVars, listenerVars, pubVars >>

BrokerUp ==
    /\ ~brokerUp
    /\ brokerUp' = TRUE
    /\ UNCHANGED << variant, sentinelUp, master, failoverMsgs, env, disturbed,
                    handleVars, listenerVars, pubVars >>

SentinelDown ==
    /\ variant = "sentinel"
    /\ sentinelUp
    /\ env.faults < MaxFaults
    /\ sentinelUp' = FALSE
    /\ env' = [env EXCEPT !.faults = @ + 1]
    /\ disturbed' = TRUE
    /\ UNCHANGED << variant, brokerUp, master, failoverMsgs, handleVars, listenerVars, pubVars >>

SentinelUp ==
    /\ ~sentinelUp
    /\ sentinelUp' = TRUE
    /\ UNCHANGED << variant, brokerUp, master, failoverMsgs, env, disturbed,
                    handleVars, listenerVars, pubVars >>

\* The sentinel promotes the other node and announces '+switch-master'.
MasterSwitch ==
    /\ variant = "sentinel"
    /\ sentinelUp
    /\ env.faults < MaxFaults
    /\ master' = OtherLoc(master)
    /\ brokerUp' = TRUE
    /\ failoverMsgs' = failoverMsgs + 1
    /\ env' = [env EXCEPT !.faults = @ + 1]
    /\ disturbed' = TRUE
    /\ UNCHANGED << variant, sentinelUp, handleVars, listenerVars, pubVars >>

\* The broker delivers an envelope that no modelled _publish produced.
DeliverForeign ==
    /\ env.foreign < MaxForeign
    /\ \E s \in Slots, e \in ForeignEnvelopes :
        /\ h[s].sub
        /\ Len(h[s].inbox) < MaxInbox
        /\ h' = [h EXCEPT ![s].inbox = Append(@, e)]
    /\ env' = [env EXCEPT !.foreign = @ + 1]
    /\ UNCHANGED << variant, brokerUp, sentinelUp, master, failoverMsgs, disturbed,
                    redis, cur, lh, listenerVars, pubVars >>

----------------------------------------------------------------------------
(* _publish (lines 75-88 and 158-170) *)

ListenerRunning == lpc \notin {"init", "raised"}

\* The caller enters _publish(data): retry = True.
PublishStart(m) ==
    /\ pub[m].pc = "idle"
    /\ pub[m].calls < MaxPublish
    /\ pub' = [pub EXCEPT ![m] = [NewCall EXCEPT !.pc = "try", !.calls = pub[m].calls + 1]]
    /\ UNCHANGED << variant, envVars, disturbed, handleVars, listenerVars, sentA, gaveUp >>

\* _redis_connect called by _publish under preemptive threads: the caller is
\* suspended between its two assignments, with self.redis assigned (line 71 /
\* 147) and self.pubsub (line 73 / 156) not yet.
PublishSwap(m) ==
    /\ pub[m].pc = "try"
    /\ NeedsConnect(variant, pub[m].retry)
    /\ \E d \in DiscoverResults :
        /\ d.ok
        /\ redis' = [redis EXCEPT ![m] = ConnectTarget(variant, d, redis[m])]
    /\ pub' = [pub EXCEPT ![m].pc = "mid"]
    /\ UNCHANGED << variant, envVars, disturbed, h, cur, lh, listenerVars, sentA, gaveUp >>

\* One pass through the try block of _publish, with its except clause; from
\* "mid" it is the rest of the pass, which starts with the assignment of
\* self.pubsub from the self.redis of that moment.
PublishAttempt(m) ==
    /\ pub[m].pc \in {"try", "mid"}
    /\ \E d \in DiscoverResults :
        LET p == pub[m]
            mid == p.pc = "mid"
            conn == NeedsConnect(variant, p.retry)
            connOK == mid \/ ~conn \/ d.ok
            replaced == conn /\ connOK
            loc == IF replaced /\ ~mid THEN ConnectTarget(variant, d, redis[m]) ELSE redis[m]
            ok == connOK /\ Reachable(loc)
            kind == IF connOK THEN "ConnectionError" ELSE "MasterNotFoundError"
            hc == IF m = "B" /\ replaced THEN NewPubsub(h, NewSlot, loc) ELSE h
            data == Payload(m, p.calls)
            next == IF ok \/ Caught(kind) THEN AfterPublish(ok, p.retry) ELSE "raised"
        IN  /\ ok => HasRoom(hc, loc)
            /\ redis' = [redis EXCEPT ![m] = loc]
            /\ h' = IF ok THEN Broadcast(hc, loc, Message(data)) ELSE hc
            /\ cur' = IF m = "B" /\ replaced THEN NewSlot ELSE cur
            /\ pub' = [pub EXCEPT ![m] =
                        [p EXCEPT !.pc = next,
                                  !.retry = IF ok THEN @ ELSE FALSE,
                                  !.attempts = @ + 1,
                                  !.connects = @ + (IF conn THEN 1 ELSE 0),
                                  !.publishes = @ + (IF connOK THEN 1 ELSE 0),
                                  !.oks = @ + (IF ok THEN 1 ELSE 0),
                                  !.result = IF ok THEN "ok"
                                             ELSE IF next = "idle" THEN "gaveup"
                                             ELSE IF next = "raised" THEN "raised"
                                             ELSE @]]
            /\ sentA' = IF ok /\ m = "A" /\ ListenerRunning THEN sentA \cup {data} ELSE sentA
            /\ gaveUp' = IF ~ok /\ next = "idle" THEN gaveUp \cup {data} ELSE gaveUp
    /\ UNCHANGED << variant, envVars, disturbed, lh, listenerVars >>

----------------------------------------------------------------------------
(* The listener: _listen (lines 110-117) over _redis_listen_with_retries   *)
(* (lines 90-108 and 172-197)                                              *)

\* The try block raised an exception of class kind while doing `why`:
\* the except clause logs and sets connect = True; any other class leaves
\* the generator.
Raise(kind, why) ==
    /\ lpc' = IF Caught(kind) THEN AfterError(why) ELSE "raised"
    /\ connect' = IF Caught(kind) THEN TRUE ELSE connect
    /\ streak' = IF Caught(kind) THEN Bump(streak) ELSE streak
    /\ reconnFails' = IF why = "connect" THEN Bump(reconnFails) ELSE reconnFails
    /\ cause' = why

\* The envelope e came out of the handle: _listen yields its data if it passes the filter.
Deliver(e) ==
    IF ~Ignored(e) /\ Accepts(e)
    THEN yielded' = Append(yielded, e.data) /\ origin' = Append(origin, e)
    ELSE UNCHANGED << yielded, origin >>

\* _listen, line 112: self.pubsub.subscribe(self.channel), outside any try.
ListenSubscribe ==
    /\ lpc = "init"
    /\ IF Reachable(h[cur].loc)
       THEN h' = Subscribed(h, cur) /\ lpc' = "loop"
       ELSE h' = h /\ lpc' = "raised"
    /\ UNCHANGED << variant, envVars, disturbed, redis, cur, lh, pubVars,
                    retry_sleep, connect, yielded, origin, streak, reconnFails, cause,
                    recovered >>

\* if connect: self._redis_connect(); self.pubsub.subscribe(self.channel); retry_sleep = 1
ListenReconnect ==
    /\ lpc = "loop"
    /\ connect
    /\ \E d \in DiscoverResults :
        LET loc == ConnectTarget(variant, d, redis["B"])
            hc == NewPubsub(h, cur, loc)
        IN  IF ~d.ok
            THEN /\ Raise("MasterNotFoundError", "connect")
                 /\ UNCHANGED << redis, h, retry_sleep, recovered >>
            ELSE IF ~Reachable(loc)
            THEN /\ Raise("ConnectionError", "connect")
                 /\ redis' = [redis EXCEPT !["B"] = loc]
                 /\ h' = hc
                 /\ UNCHANGED << retry_sleep, recovered >>
            ELSE /\ redis' = [redis EXCEPT !["B"] = loc]
                 /\ h' = Subscribed(hc, cur)
                 /\ retry_sleep' = BaseDelay
                 /\ lpc' = IF variant = "direct" THEN "listen" ELSE "failover"
                 /\ streak' = 0
                 /\ reconnFails' = 0
                 /\ cause' = "none"
                 /\ recovered' = TRUE
                 /\ UNCHANGED connect
    /\ UNCHANGED << variant, envVars, disturbed, cur, lh, pubVars, yielded, origin >>

\* Direct variant, line 99: self.pubsub.listen() is called on the current handle.
ListenBind ==
    /\ variant = "direct"
    /\ lpc = "listen" \/ (lpc = "loop" /\ ~connect)
    /\ lh' = cur
    /\ lpc' = "recv"
    /\ UNCHANGED << variant, envVars, disturbed, redis, h, cur, pubVars,
                    retry_sleep, connect, yielded, origin, streak, reconnFails, cause,
                    recovered >>

\* Direct variant, lines 99-100: the generator returned by listen() is asked
\* for the next message.
ListenNext ==
    /\ lpc = "recv"
    /\ \/ /\ ~h[lh].sub
          /\ lpc' = "loop"
          /\ h' = Collect(h, cur)
          /\ lh' = cur
          /\ UNCHANGED << retry_sleep, connect, yielded, origin, streak, reconnFails, cause >>
       \/ /\ h[lh].sub
          /\ ~Reachable(h[lh].loc)
          /\ Raise("ConnectionError", "receive")
          /\ h' = Collect(h, cur)
          /\ lh' = cur
          /\ UNCHANGED << retry_sleep, yielded, origin >>
       \/ /\ h[lh].sub
          /\ h[lh].inbox # <<>>
          /\ h' = [h EXCEPT ![lh].inbox = Tail(@)]
          /\ Deliver(Head(h[lh].inbox))
          /\ UNCHANGED << lh, lpc, retry_sleep, connect, streak, reconnFails, cause >>
    /\ UNCHANGED << variant, envVars, disturbed, redis, cur, pubVars, recovered >>

\* Sentinel variant, lines 181-184: the check of the failover subscription.
ListenFailoverCheck ==
    /\ variant = "sentinel"
    /\ lpc = "failover" \/ (lpc = "loop" /\ ~connect)
    /\ \/ /\ ~sentinelUp
          /\ Raise("ConnectionError", "failover")
          /\ UNCHANGED << failoverMsgs, redis, h >>
       \/ /\ sentinelUp
          /\ failoverMsgs = 0
          /\ lpc' = "poll"
          /\ UNCHANGED << failoverMsgs, redis, h, connect, streak, reconnFails, cause >>
       \/ /\ sentinelUp
          /\ failoverMsgs > 0
          /\ failoverMsgs' = failoverMsgs - 1
          /\ \E d \in DiscoverResults :
               LET loc == ConnectTarget(variant, d, redis["B"])
                   hc == NewPubsub(h, cur, loc)
               IN  IF ~d.ok
                   THEN /\ Raise("MasterNotFoundError", "connect")
                        /\ UNCHANGED << redis, h >>
                   ELSE IF ~Reachable(loc)
                   THEN /\ Raise("ConnectionError", "connect")
                        /\ redis' = [redis EXCEPT !["B"] = loc]
                        /\ h' = hc
                   ELSE /\ redis' = [redis EXCEPT !["B"] = loc]
                        /\ h' = Subscribed(hc, cur)
                        /\ lpc' = "poll"
                        /\ UNCHANGED << connect, streak, reconnFails, cause >>
    /\ UNCHANGED << variant, brokerUp, sentinelUp, master, env, disturbed, cur, lh, pubVars,
                    retry_sleep, yielded, origin, recovered >>

\* What get_message does on a pubsub that never subscribed: it returns None,
\* or (older clients) raises RuntimeError.
UnsubscribedPoll == {"None", "RuntimeError"}

\* Sentinel variant, lines 185-188: one poll of the current handle, then sleep(0.001).
ListenPoll ==
    /\ lpc = "poll"
    /\ \/ /\ ~h[cur].sub
          /\ \E r \in UnsubscribedPoll :
               IF r = "None"
               THEN lpc' = "loop" /\ UNCHANGED << connect, streak, reconnFails, cause >>
               ELSE Raise(r, "receive")
          /\ UNCHANGED << h, yielded, origin >>
       \/ /\ h[cur].sub
          /\ ~Reachable(h[cur].loc)
          /\ Raise("ConnectionError", "receive")
          /\ UNCHANGED << h, yielded, origin >>
       \/ /\ h[cur].sub
          /\ Reachable(h[cur].loc)
          /\ h[cur].inbox = <<>>
          /\ lpc' = "loop"
          /\ UNCHANGED << h, yielded, origin, connect, streak, reconnFails, cause >>
       \/ /\ h[cur].sub
          /\ h[cur].inbox # <<>>
          /\ h' = [h EXCEPT ![cur].inbox = Tail(@)]
          /\ Deliver(Head(h[cur].inbox))
          /\ lpc' = "loop"
          /\ UNCHANGED << connect, streak, reconnFails, cause >>
    /\ UNCHANGED << variant, envVars, disturbed, redis, cur, lh, pubVars, retry_sleep,
                    recovered >>

\* except clause, lines 105-108 and 194-197: sleep, then double the delay up to the cap.
ListenBackoff ==
    /\ lpc = "sleep"
    /\ retry_sleep' = NextDelay(retry_sleep)
    /\ lpc' = "loop"
    /\ UNCHANGED << variant, envVars, disturbed, handleVars, pubVars,
                    connect, yielded, origin, streak, reconnFails, cause, recovered >>

Listener ==
    \/ ListenSubscribe
    \/ ListenReconnect
    \/ ListenBind
    \/ ListenNext
    \/ ListenFailoverCheck
    \/ ListenPoll
    \/ ListenBackoff

Environment ==
    \/ BrokerDown
    \/ BrokerUp
    \/ SentinelDown
    \/ SentinelUp
    \/ MasterSwitch
    \/ DeliverForeign

\* Manager B alone: its listener, its _publish calls and the environment.
Next ==
    \/ Environment
    \/ Listener
    \/ PublishStart("B")
    \/ PublishSwap("B")
    \/ PublishAttempt("B")

Spec == Init /\ [][Next]_vars

\* The same with the second process A publishing on the channel.
NextAB ==
    \/ Environment
    \/ Listener
    \/ \E m \in Managers : PublishStart(m)
    \/ PublishSwap("B")
    \/ \E m \in Managers : PublishAttempt(m)

SpecAB == Init /\ [][NextAB]_vars

\* The listener runs in its own context and a _publish call that was entered
\* runs to its end; the environment and the callers of _publish owe nothing.
FairSpec == Spec /\ WF_vars(Listener) /\ WF_vars(PublishAttempt("B"))

----------------------------------------------------------------------------
(* Vocabulary of the properties *)

Count(seq, x) == Cardinality({i \in DOMAIN seq : seq[i] = x})

\* A copy of payload p waits unread on a handle that is still referenced.
InFlight(p) == \E s \in Slots : \E i \in DOMAIN h[s].inbox : h[s].inbox[i] = Message(p)

\* The delay of the k-th consecutive error: 1, 2, 4, ... capped at 60.
DelayOf(k) == Min(2 ^ (k - 1), DelayCap)

\* The listener is waiting for the next message on a handle subscribed to the channel.
Receiving ==
    \/ lpc = "recv" /\ h[lh].sub
    \/ lpc = "poll" /\ h[cur].sub

----------------------------------------------------------------------------
(* C1 - code_bug.  With the broker reachable throughout, every message that A *)
(* publishes while B's listener runs is yielded by B's listener exactly once: *)
(* never twice, and while it has not been yielded it is still waiting on a    *)
(* handle of B.  Violated in the sentinel variant: every _publish of B        *)
(* replaces self.pubsub by a handle that is not subscribed.                   *)
C1_ExactlyOnce ==
    ~disturbed =>
        \A p \in sentA :
            /\ Count(yielded, p) <= 1
            /\ Count(yielded, p) = 0 => (InFlight(p) /\ lpc # "raised")

(* C2 - confirmed.  One call of RedisManager._publish (direct variant) makes   *)
(* at most two publish attempts and at most one reconnect: none while the      *)
(* first attempt is the only one, exactly one before the second attempt.  A    *)
(* call that is still running has made fewer than two attempts, all failed;    *)
(* a call that gave up made two attempts and one reconnect; the call has no    *)
(* position other than its try block.                                          *)
C2_PublishRetryOnce ==
    variant = "direct" =>
        \A m \in Managers :
            LET p == pub[m] IN
            /\ p.pc \in {"idle", "try", "mid"}
            /\ p.attempts <= 2
            /\ p.publishes = p.attempts
            /\ p.connects = (IF p.attempts = 2 THEN 1 ELSE 0)
            /\ p.pc \in {"try", "mid"} => (p.attempts <= 1 /\ p.oks = 0)
            /\ p.pc = "mid" => p.attempts = 1
            /\ (p.pc = "idle" /\ p.calls > 0) =>
                  \/ p.attempts = 1 /\ p.oks = 1 /\ p.result = "ok"
                  \/ p.attempts = 2 /\ p.oks = 1 /\ p.result = "ok"
                  \/ p.attempts = 2 /\ p.oks = 0 /\ p.result = "gaveup"

C2_Witness ==
    /\ variant = "direct"
    /\ pub["B"].pc = "idle"
    /\ pub["B"].result = "gaveup"
    /\ pub["B"].connects = 1
    /\ pub["B"].attempts = 2

(* C3 - confirmed.  In both variants no exception leaves _publish; a call in   *)
(* which every broker operation failed returns the failure value after at most *)
(* two passes; and a first attempt made while the broker (and, in the sentinel *)
(* variant, the sentinel) is reachable succeeds and ends the call.             *)
C3_Inv ==
    \A m \in Managers :
        LET p == pub[m] IN
        /\ p.pc # "raised"
        /\ p.result \in {"none", "ok", "gaveup"}
        /\ p.pc \in {"try", "mid"} => p.attempts < 2
        /\ (p.pc = "idle" /\ p.calls > 0 /\ p.oks = 0) => (p.result = "gaveup" /\ p.attempts = 2)

C3_Step ==
    \A m \in Managers :
        (/\ pub[m].pc \in {"try", "mid"}
         /\ pub[m].attempts = 0
         /\ pub'[m].attempts # pub[m].attempts
         /\ brokerUp
         /\ sentinelUp
         /\ redis[m] = master \/ (variant = "sentinel" /\ pub[m].pc = "try"))
        => (pub'[m].pc = "idle" /\ pub'[m].result = "ok" /\ pub'[m].attempts = 1)

C3_PublishNeverRaises == []C3_Inv /\ [][C3_Step]_vars

C3_Witness ==
    /\ variant = "sentinel"
    /\ pub["B"].pc = "idle"
    /\ pub["B"].result = "gaveup"
    /\ pub["B"].publishes = 0

(* C4 - confirmed.  In both listener variants retry_sleep is between 1 and 60  *)
(* in every state: at every sleep and at the start of every loop iteration.    *)
C4_DelayInRange == retry_sleep >= BaseDelay /\ retry_sleep <= DelayCap

C4_Witness == lpc = "sleep" /\ retry_sleep = DelayCap /\ recovered

(* C5 - corrected.  The claim as stated: the sleep that follows the k-th       *)
(* consecutive failed reconnect attempt is 1, 2, 4, ... capped at 60, starting *)
(* with 1 for the first failed reconnect attempt.                              *)
C5_FailedReconnectsStartAtBase ==
    (lpc = "sleep" /\ cause = "connect") => retry_sleep = DelayOf(reconnFails)

(* C5 as amended: the sleep that follows the k-th consecutive entry of the     *)
(* except handler (whatever raised: a receive, the failover check or a         *)
(* reconnect attempt) since the start or the last successful reconnect is      *)
(* 1, 2, 4, ... capped at 60, and a successful reconnect resets the delay to 1.*)
C5_DelayDoublesPerError ==
    /\ lpc = "sleep" => retry_sleep = DelayOf(streak)
    /\ streak = 0 => retry_sleep = BaseDelay

C5_Witness ==
    /\ recovered
    /\ lpc = "sleep"
    /\ streak = 3
    /\ retry_sleep = 4

(* C6 - code_bug.  While the broker is unavailable the listener does not end:  *)
(* no step taken with the broker down takes a running _listen out of its loop. *)
(* Violated at line 112: the first subscribe of _listen is outside any try.    *)
C6_ListenerNeverEnds == [][(~brokerUp /\ lpc # "raised") => lpc' # "raised"]_vars

(* C7 - confirmed.  Every item _listen yields is the data of an envelope of    *)
(* type "message" that carries data and whose channel is the manager's.        *)
C7_OnlyChannelMessages ==
    /\ Len(origin) = Len(yielded)
    /\ \A i \in DOMAIN origin :
        /\ origin[i].type = "message"
        /\ origin[i].hasData
        /\ origin[i].channel = Channel
        /\ yielded[i] = origin[i].data

C7_Witness ==
    /\ recovered
    /\ env.foreign >= 1
    /\ Len(yielded) >= 1
    /\ \A s \in Slots : h[s].inbox = <<>>

(* C8 - code_bug.  If the broker (and its sentinel) stays reachable from some  *)
(* point on, a listener whose generator has not ended is again and again       *)
(* waiting for messages on a handle that is subscribed to the channel: it does *)
(* not stay forever on an unsubscribed handle or in a loop that neither        *)
(* receives nor reconnects.                                                    *)
C8_ListenerRecovers ==
    ((<>[](brokerUp /\ sentinelUp)) /\ [](lpc # "raised")) => []<>Receiving

(* C9 - code_bug.  While a master-switch notification is waiting on the        *)
(* failover subscription the listener takes no backoff sleep, whatever state   *)
(* it is in.                                                                   *)
C9_FailoverBypassesBackoff ==
    [][(variant = "sentinel" /\ failoverMsgs > 0 /\ lpc = "sleep") => lpc' = "sleep"]_vars

(* C10 - confirmed.  One _publish call has at most one successful PUBLISH, no  *)
(* payload is yielded twice, and the payload of a call that gave up is neither *)
(* waiting on a handle nor ever yielded.                                       *)
C10_AtMostOnce ==
    /\ \A m \in Managers : pub[m].oks <= 1
    /\ \A i, j \in DOMAIN yielded : (yielded[i] = yielded[j] /\ yielded[i].src = "B") => i = j
    /\ \A p \in gaveUp : Count(yielded, p) = 0 /\ ~InFlight(p)

C10_Witness ==
    /\ gaveUp # {}
    /\ recovered
    /\ Receiving
    /\ Len(yielded) >= 1

(* C11 - code_bug.  One call of RedisSentinelManager._publish calls            *)
(* _redis_connect only after a publish attempt failed, at most once: it has    *)
(* made no connect while its first attempt is the only one (so a call that     *)
(* succeeded at once left redis and pubsub alone), and exactly one when it     *)
(* made two attempts (so a call that gave up reconnected once).                *)
C11_ConnectOnlyAfterFailure ==
    variant = "sentinel" =>
        \A m \in Managers :
            LET p == pub[m] IN
            /\ p.connects = (IF p.attempts = 2 THEN 1 ELSE 0)
            /\ (p.result = "ok" /\ p.attempts = 1) => p.connects = 0
            /\ p.result = "gaveup" => p.connects = 1

(* C12 - code_bug.  The listener reconnects only to recover from an error:    *)
(* whenever it calls _redis_connect at the top of its loop, the except handler *)
(* has been entered since the last successful reconnect.  So after a reconnect *)
(* succeeded, loop iterations that saw no error do not connect again.          *)
C12_ReconnectOnlyAfterError ==
    [][(lpc = "loop" /\ connect /\ lpc' # "loop") => streak > 0]_vars

(* C13 - code_bug.  Whenever the listener asks a pubsub handle for the next    *)
(* message, that handle is subscribed to the channel: no reconnect, by the     *)
(* listener, after a failover notification or by _publish, has left the        *)
(* listener on a handle that is not subscribed.                                *)
C13_ReceivesOnSubscribedHandle ==
    /\ lpc = "poll" => h[cur].sub
    /\ lpc = "recv" => h[lh].sub

(* C14 - corrected.  The claim as stated: the backoff sleep happens only      *)
(* after a connect attempt failed; an error raised while waiting for the next  *)
(* message is followed by a reconnect attempt, not by a sleep.                 *)
C14_NoSleepBeforeFirstReconnect ==
    ~(lpc = "sleep" /\ cause = "receive")

(* C14 as amended: an error raised while waiting for the next message is       *)
(* followed by the backoff sleep first, of 1 since it is the first error after *)
(* a success, and by the reconnect attempt only after that sleep: while that   *)
(* error is the last one handled, the listener either is in the sleep with no  *)
(* reconnect attempt made, or has slept once and is about to reconnect.        *)
C14_SleepBeforeFirstReconnect ==
    (cause = "receive" /\ lpc # "raised") =>
        /\ streak = 1
        /\ reconnFails = 0
        /\ connect
        /\ \/ lpc = "sleep" /\ retry_sleep = BaseDelay
           \/ lpc = "loop" /\ retry_sleep = NextDelay(BaseDelay)

C14_Witness ==
    /\ cause = "receive"
    /\ lpc = "loop"
    /\ retry_sleep = 2
    /\ brokerUp
    /\ sentinelUp

(* C15 - code_bug.  The listener receives on the manager's current handle:    *)
(* whenever it asks for the next message, the handle it asks is the one        *)
(* self.pubsub refers to, also after a _publish call replaced that handle.     *)
C15_ListenerOnCurrentHandle ==
    lpc = "recv" => lh = cur

(* C16 - code_bug.  In every state another operation of the manager can      *)
(* observe, the current pubsub handle was created from the current redis       *)
(* handle: both refer to the same node, because _redis_connect replaces both   *)
(* or neither.                                                                 *)
C16_PubsubOfCurrentRedis ==
    h[cur].loc = redis["B"]

(* C17 - code_bug.  In the sentinel listener the check of the failover        *)
(* subscription, made while the master is reachable, only ever rebuilds the    *)
(* handle: whatever happens in it, the listener goes on to poll the data       *)
(* channel in the same iteration, with retry_sleep unchanged and no backoff    *)
(* sleep.                                                                      *)
C17_FailoverCheckOnlyRebuilds ==
    [][(/\ variant = "sentinel"
        /\ lpc = "failover" \/ (lpc = "loop" /\ ~connect)
        /\ brokerUp
        /\ lpc' # lpc)
       => (lpc' = "poll" /\ retry_sleep' = retry_sleep)]_vars

(* C18 - confirmed.  In the sentinel variant every _redis_connect that        *)
(* succeeds, whether called by _publish, by the listener recovering from an    *)
(* error or after a failover notification, leaves self.redis targeting the     *)
(* node discover_master named during that call, which is the master of that    *)
(* moment: the target never changes to anything else, and a pubsub created by  *)
(* the listener's reconnect belongs to that node.                              *)
C18_ConnectResolvesMaster ==
    [][variant = "sentinel" =>
        LET p == pub["B"]
            q == pub'["B"]
        IN  /\ redis'["B"] # redis["B"] => redis'["B"] = master
            /\ (p.pc = "try" /\ q.pc = "mid") => redis'["B"] = master
            /\ (p.pc = "try" /\ q.connects = p.connects + 1 /\ q.publishes = p.publishes + 1)
                  => (redis'["B"] = master /\ h'[cur'].loc = master)
            /\ (lpc = "loop" /\ connect /\ lpc' = "failover")
                  => (redis'["B"] = master /\ h'[cur'].loc = master)
            /\ (failoverMsgs' = failoverMsgs - 1 /\ lpc' = "poll")
                  => (redis'["B"] = master /\ h'[cur'].loc = master)]_vars

C18_Witness ==
    /\ variant = "sentinel"
    /\ master = 2
    /\ redis["B"] = 2
    /\ h[cur].loc = 2
    /\ h[cur].sub
    /\ recovered

====
